---- MODULE Spec2Model ----
(***************************************************************************)
(* Country-based request filtering (GeoIPMiddleware) and the assembly of   *)
(* the handler chain (NewHandler) of geofiltering-thruster.                *)
(*                                                                         *)
(* Text (addresses, header values, country codes) is a sequence of         *)
(* one-character strings, so that splitting, parsing and case folding are  *)
(* computed character by character.  An IP address (Go's net.IP) is a       *)
(* sequence of bytes of length 4 or 16; the nil address is <<>>.           *)
(***************************************************************************)
EXTENDS Integers, Sequences, FiniteSets, TLC

VARIABLES
    options,      \* HandlerOptions given to NewHandler
    files,        \* candidate paths (indices) at which a database file exists
    cwdOK,        \* whether the working directory can be resolved (filepath.Abs)
    dbPath,       \* path NewHandler got from FindGeoIP2Database
    chain,        \* the handler NewHandler returned: its layers, outermost first
    pc,           \* "boot", "idle", "serving", "lookup", "done"; "classify", "classified"
    req,          \* the request being served: its headers and peer address
    ip,           \* ServeHTTP's parsed address (nil: <<>>)
    local,        \* result of isLocalOrInternalIP(ip)
    lookup,       \* result of reader.Country(ip) for this request
    entered,      \* layers the request has entered, in order
    status,       \* response status written (0: none yet)
    lookups,      \* number of country lookups started for this request
    annotations,  \* number of times the filter set X-GeoIP-Country
    geoLog,       \* rejection records the filter logged
    accessLog,    \* records of the request-logging layer
    downstream,   \* one entry per call of the filter's next handler: the
                  \* X-GeoIP-Country value that handler received
    cancelled     \* the serving runtime has cancelled the request

vars == <<options, files, cwdOK, dbPath, chain, pc, req, ip, local, lookup,
          entered, status, lookups, annotations, geoLog, accessLog,
          downstream, cancelled>>

----------------------------------------------------------------------------
(* Characters and text *)

DigitVal ==
    ("0" :> 0) @@ ("1" :> 1) @@ ("2" :> 2) @@ ("3" :> 3) @@ ("4" :> 4) @@
    ("5" :> 5) @@ ("6" :> 6) @@ ("7" :> 7) @@ ("8" :> 8) @@ ("9" :> 9)

HexVal ==
    DigitVal @@
    ("a" :> 10) @@ ("b" :> 11) @@ ("c" :> 12) @@ ("d" :> 13) @@ ("e" :> 14) @@
    ("f" :> 15) @@
    ("A" :> 10) @@ ("B" :> 11) @@ ("C" :> 12) @@ ("D" :> 13) @@ ("E" :> 14) @@
    ("F" :> 15)

IsDigit(c) == c \in DOMAIN DigitVal

IsHex(c) == c \in DOMAIN HexVal

\* Index (1-based) of the first c in s, 0 when there is none.
IndexByte(s, c) ==
    IF \E k \in 1..Len(s) : s[k] = c
    THEN CHOOSE k \in 1..Len(s) : s[k] = c /\ \A j \in 1..(k - 1) : s[j] # c
    ELSE 0

\* Index (1-based) of the last c in s, 0 when there is none.
LastIndexByte(s, c) ==
    IF \E k \in 1..Len(s) : s[k] = c
    THEN CHOOSE k \in 1..Len(s) : s[k] = c /\ \A j \in (k + 1)..Len(s) : s[j] # c
    ELSE 0

\* s[from:] of Go, with from a 1-based index.
From(s, from) == SubSeq(s, from, Len(s))

----------------------------------------------------------------------------
(* net.SplitHostPort *)

SplitErr == [err |-> TRUE, host |-> <<>>]

SplitHostPort(hostport) ==
    LET i == LastIndexByte(hostport, ":")
    IN  IF i = 0 THEN SplitErr
        ELSE IF hostport[1] = "["
        THEN LET end == IndexByte(hostport, "]")
             IN  IF end = 0 THEN SplitErr
                 ELSE IF end = Len(hostport) THEN SplitErr
                 ELSE IF end + 1 # i THEN SplitErr
                 ELSE IF IndexByte(From(hostport, 2), "[") > 0 THEN SplitErr
                 ELSE IF IndexByte(From(hostport, end + 1), "]") > 0 THEN SplitErr
                 ELSE [err |-> FALSE, host |-> SubSeq(hostport, 2, end - 1)]
        ELSE LET host == SubSeq(hostport, 1, i - 1)
             IN  IF IndexByte(host, ":") > 0 THEN SplitErr
                 ELSE IF IndexByte(hostport, "[") > 0 THEN SplitErr
                 ELSE IF IndexByte(hostport, "]") > 0 THEN SplitErr
                 ELSE [err |-> FALSE, host |-> host]

----------------------------------------------------------------------------
(* net.ParseIP *)

Nil == <<>>

RECURSIVE V4Loop(_, _, _, _, _)
\* parseIPv4Fields: s from (1-based) position i on, the octet read so far and
\* its number of digits, and the octets completed.  Nil on any error.
V4Loop(s, i, val, digLen, fields) ==
    IF i > Len(s)
    THEN IF Len(fields) < 3 THEN Nil ELSE Append(fields, val)
    ELSE IF IsDigit(s[i])
    THEN IF digLen = 1 /\ val = 0 THEN Nil
         ELSE LET v == val * 10 + DigitVal[s[i]]
              IN  IF v > 255 THEN Nil ELSE V4Loop(s, i + 1, v, digLen + 1, fields)
    ELSE IF s[i] = "."
    THEN IF i = 1 \/ i = Len(s) \/ s[i - 1] = "." THEN Nil
         ELSE IF Len(fields) = 3 THEN Nil
         ELSE V4Loop(s, i + 1, 0, 0, Append(fields, val))
    ELSE Nil

ParseIPv4Fields(s) == V4Loop(s, 1, 0, 0, <<>>)

v4InV6Prefix == <<0, 0, 0, 0, 0, 0, 0, 0, 0, 0, 255, 255>>

Zeros(n) == [k \in 1..n |-> 0]

\* The 16-byte form ParseIP gives an IPv4 address.
ParseIPv4(s) ==
    LET f == ParseIPv4Fields(s) IN IF f = Nil THEN Nil ELSE v4InV6Prefix \o f

RECURSIVE HexRun(_, _, _)
\* The hex digits at the head of s: [off, acc, bad], bad when a fifth digit
\* is met.
HexRun(s, off, acc) ==
    IF off < Len(s) /\ IsHex(s[off + 1])
    THEN IF off + 1 > 4 THEN [off |-> off + 1, acc |-> acc, bad |-> TRUE]
         ELSE HexRun(s, off + 1, acc * 16 + HexVal[s[off + 1]])
    ELSE [off |-> off, acc |-> acc, bad |-> FALSE]

\* The end of parseIPv6: the whole string used, the ellipsis expanded.
\* ellipsis is the number of bytes before the "::", -1 when there is none.
V6Finish(s, bytes, ellipsis) ==
    IF Len(s) # 0 THEN Nil
    ELSE IF Len(bytes) < 16
    THEN IF ellipsis < 0 THEN Nil
         ELSE SubSeq(bytes, 1, ellipsis) \o Zeros(16 - Len(bytes))
                  \o SubSeq(bytes, ellipsis + 1, Len(bytes))
    ELSE IF ellipsis >= 0 THEN Nil
    ELSE bytes

RECURSIVE V6Loop(_, _, _)
\* parseIPv6's loop: the text left, the bytes stored so far, the ellipsis.
V6Loop(s, bytes, ellipsis) ==
    IF Len(bytes) >= 16 THEN V6Finish(s, bytes, ellipsis)
    ELSE
    LET h == HexRun(s, 0, 0)
        rest == From(s, h.off + 1)
    IN  IF h.bad THEN Nil
        ELSE IF h.off = 0 THEN Nil
        ELSE IF Len(rest) > 0 /\ rest[1] = "."
        THEN IF ellipsis < 0 /\ Len(bytes) # 12 THEN Nil
             ELSE IF Len(bytes) + 4 > 16 THEN Nil
             ELSE LET f == ParseIPv4Fields(s)
                  IN  IF f = Nil THEN Nil
                      ELSE V6Finish(<<>>, bytes \o f, ellipsis)
        ELSE
        LET stored == bytes \o <<h.acc \div 256, h.acc % 256>>
        IN  IF Len(rest) = 0 THEN V6Finish(rest, stored, ellipsis)
            ELSE IF rest[1] # ":" THEN Nil
            ELSE IF Len(rest) = 1 THEN Nil
            ELSE IF rest[2] = ":"
            THEN IF ellipsis >= 0 THEN Nil
                 ELSE IF Len(rest) = 2
                 THEN V6Finish(<<>>, stored, Len(stored))
                 ELSE V6Loop(From(rest, 3), stored, Len(stored))
            ELSE V6Loop(From(rest, 2), stored, ellipsis)

\* An address with a zone ("%eth0") is no IP for ParseIP.
ParseIPv6(s) ==
    IF IndexByte(s, "%") > 0 THEN Nil
    ELSE IF Len(s) >= 2 /\ s[1] = ":" /\ s[2] = ":"
    THEN IF Len(s) = 2 THEN Zeros(16) ELSE V6Loop(From(s, 3), <<>>, 0)
    ELSE V6Loop(s, <<>>, -1)

\* The first of '.', ':' and '%' in s decides how s is read.
ParseIP(s) ==
    LET marks == {k \in 1..Len(s) : s[k] \in {".", ":", "%"}}
    IN  IF marks = {} THEN Nil
        ELSE LET first == CHOOSE k \in marks : \A j \in marks : k <= j
             IN  IF s[first] = "." THEN ParseIPv4(s)
                 ELSE IF s[first] = ":" THEN ParseIPv6(s)
                 ELSE Nil

----------------------------------------------------------------------------
(* isLocalOrInternalIP *)

RECURSIVE BitAnd(_, _)
BitAnd(a, b) ==
    IF a = 0 \/ b = 0 THEN 0
    ELSE (a % 2) * (b % 2) + 2 * BitAnd(a \div 2, b \div 2)

IPv6loopback == Zeros(15) \o <<1>>

\* net.IP.To4: the four bytes of an IPv4 address, Nil for any other address.
To4(a) ==
    IF Len(a) = 4 THEN a
    ELSE IF Len(a) = 16 /\ SubSeq(a, 1, 12) = v4InV6Prefix THEN SubSeq(a, 13, 16)
    ELSE Nil

\* net.IP.IsLoopback
IsLoopback(a) ==
    IF To4(a) # Nil THEN To4(a)[1] = 127 ELSE a = IPv6loopback

\* isLocalOrInternalIP with the upper end of 172.16.0.0/12 off by one.
isLocalOrInternalIPWide172(a) ==
    IF a = Nil THEN FALSE
    ELSE IF IsLoopback(a) THEN TRUE
    ELSE IF a = IPv6loopback THEN TRUE
    ELSE IF To4(a) # Nil /\ To4(a)[1] = 10 THEN TRUE
    ELSE IF To4(a) # Nil /\ To4(a)[1] = 172 /\ To4(a)[2] >= 16 /\ To4(a)[2] <= 32
         THEN TRUE
    ELSE IF To4(a) # Nil /\ To4(a)[1] = 192 /\ To4(a)[2] = 168 THEN TRUE
    ELSE IF To4(a) # Nil /\ To4(a)[1] = 169 /\ To4(a)[2] = 254 THEN TRUE
    ELSE IF Len(a) = 16 /\ BitAnd(a[1], 254) = 252 THEN TRUE
    ELSE IF Len(a) = 16 /\ a[1] = 254 /\ BitAnd(a[2], 192) = 128 THEN TRUE
    ELSE FALSE

\* isLocalOrInternalIP without the 169.254.0.0/16 case.
isLocalOrInternalIPNoLinkLocal4(a) ==
    IF a = Nil THEN FALSE
    ELSE IF IsLoopback(a) THEN TRUE
    ELSE IF a = IPv6loopback THEN TRUE
    ELSE IF To4(a) # Nil /\ To4(a)[1] = 10 THEN TRUE
    ELSE IF To4(a) # Nil /\ To4(a)[1] = 172 /\ To4(a)[2] >= 16 /\ To4(a)[2] <= 31
         THEN TRUE
    ELSE IF To4(a) # Nil /\ To4(a)[1] = 192 /\ To4(a)[2] = 168 THEN TRUE
    ELSE IF Len(a) = 16 /\ BitAnd(a[1], 254) = 252 THEN TRUE
    ELSE IF Len(a) = 16 /\ a[1] = 254 /\ BitAnd(a[2], 192) = 128 THEN TRUE
    ELSE FALSE

isLocalOrInternalIP(a) ==
    IF a = Nil THEN FALSE
    ELSE IF IsLoopback(a) THEN TRUE
    ELSE IF a = IPv6loopback THEN TRUE
    ELSE IF To4(a) # Nil /\ To4(a)[1] = 10 THEN TRUE
    ELSE IF To4(a) # Nil /\ To4(a)[1] = 172 /\ To4(a)[2] >= 16 /\ To4(a)[2] <= 31
         THEN TRUE
    ELSE IF To4(a) # Nil /\ To4(a)[1] = 192 /\ To4(a)[2] = 168 THEN TRUE
    ELSE IF To4(a) # Nil /\ To4(a)[1] = 169 /\ To4(a)[2] = 254 THEN TRUE
    ELSE IF Len(a) = 16 /\ BitAnd(a[1], 254) = 252 THEN TRUE
    ELSE IF Len(a) = 16 /\ a[1] = 254 /\ BitAnd(a[2], 192) = 128 THEN TRUE
    ELSE FALSE

----------------------------------------------------------------------------
(* GeoIPMiddleware.ServeHTTP: the pure parts *)

\* The address text ServeHTTP reads from request r.
RemoteAddrOf(r) == IF r.xff = <<>> THEN r.remoteAddr ELSE r.xff

\* The host ServeHTTP parses: the text without its port, or the whole text
\* when SplitHostPort fails.
HostOf(remoteAddr) ==
    LET sp == SplitHostPort(remoteAddr)
    IN  IF sp.err THEN remoteAddr ELSE sp.host

ToLower ==
    ("A" :> "a") @@ ("B" :> "b") @@ ("C" :> "c") @@ ("D" :> "d") @@
    ("E" :> "e") @@ ("F" :> "f") @@ ("G" :> "g") @@ ("H" :> "h") @@
    ("I" :> "i") @@ ("J" :> "j") @@ ("K" :> "k") @@ ("L" :> "l") @@
    ("M" :> "m") @@ ("N" :> "n") @@ ("O" :> "o") @@ ("P" :> "p") @@
    ("Q" :> "q") @@ ("R" :> "r") @@ ("S" :> "s") @@ ("T" :> "t") @@
    ("U" :> "u") @@ ("V" :> "v") @@ ("W" :> "w") @@ ("X" :> "x") @@
    ("Y" :> "y") @@ ("Z" :> "z")

FoldChar(c) == IF c \in DOMAIN ToLower THEN ToLower[c] ELSE c

\* strings.EqualFold on ASCII text.
EqualFold(s, t) ==
    /\ Len(s) = Len(t)
    /\ \A k \in 1..Len(s) : FoldChar(s[k]) = FoldChar(t[k])

\* The loop over allowCountries: some member equals the code.
CountryAllowed(code, allowCountries) ==
    \E k \in 1..Len(allowCountries) : EqualFold(code, allowCountries[k])

\* The loop over blockCountries: some member equals the code.
CountryBlocked(code, blockCountries) ==
    \E k \in 1..Len(blockCountries) : EqualFold(code, blockCountries[k])

\* Verdict that consults the block list even under a non-empty allow list.
VerdictBlockToo(res, allowCountries, blockCountries) ==
    IF res.err THEN "pass"
    ELSE IF Len(allowCountries) > 0 /\ ~CountryAllowed(res.code, allowCountries)
    THEN "not-allowed"
    ELSE IF Len(blockCountries) > 0 /\ CountryBlocked(res.code, blockCountries)
    THEN "blocked"
    ELSE "pass"

\* Verdict that filters on a failed lookup's (empty) country as well.
VerdictIgnoreErr(res, allowCountries, blockCountries) ==
    IF Len(allowCountries) > 0
    THEN IF CountryAllowed(res.code, allowCountries) THEN "pass" ELSE "not-allowed"
    ELSE IF Len(blockCountries) > 0 /\ CountryBlocked(res.code, blockCountries)
    THEN "blocked"
    ELSE "pass"

\* What ServeHTTP decides from the result of reader.Country: "not-allowed" and
\* "blocked" are its two rejections.
Verdict(res, allowCountries, blockCountries) ==
    IF res.err THEN "pass"
    ELSE IF Len(allowCountries) > 0
    THEN IF CountryAllowed(res.code, allowCountries) THEN "pass" ELSE "not-allowed"
    ELSE IF Len(blockCountries) > 0 /\ CountryBlocked(res.code, blockCountries)
    THEN "blocked"
    ELSE "pass"

\* Annotates after every successful lookup, an empty code included.
AnnotatesAlways(res) == ~res.err

\* Whether ServeHTTP sets X-GeoIP-Country on a request it lets through.
Annotates(res) == ~res.err /\ res.code # <<>>

StatusForbidden == 403

StatusOK == 200

----------------------------------------------------------------------------
(* FindGeoIP2Database *)

DatabaseName == "GeoLite2-Country.mmdb"

\* A path is the sequence of its elements; an absolute path starts with "/".
possiblePaths ==
    << <<".", DatabaseName>>,
       <<".", "data", DatabaseName>>,
       <<".", "storage", DatabaseName>>,
       <<".", "fixtures", DatabaseName>> >>

\* The working directory of the process.
Cwd == <<"/", "app">>

\* filepath.Clean, for paths without "..": the "." elements are dropped.
Clean(path) == SelectSeq(path, LAMBDA e : e # ".")

\* filepath.Abs: fails only when the working directory cannot be resolved.
Abs(path, wdOK) ==
    IF path # <<>> /\ path[1] = "/" THEN [err |-> FALSE, path |-> Clean(path)]
    ELSE IF ~wdOK THEN [err |-> TRUE, path |-> <<>>]
    ELSE [err |-> FALSE, path |-> Clean(Cwd \o path)]

\* The first candidate whose absolute path can be formed; <<>> is "".
FindGeoIP2Database(wdOK) ==
    LET ok == {k \in 1..Len(possiblePaths) :
                  /\ ~Abs(possiblePaths[k], wdOK).err
                  /\ Abs(possiblePaths[k], wdOK).path # <<>>}
    IN  IF ok = {} THEN <<>>
        ELSE Abs(possiblePaths[CHOOSE k \in ok : \A j \in ok : k <= j], wdOK).path

\* geoip2.Open succeeds exactly on a path that holds a database file.
OpenSucceeds(path, onDisk) == path \in onDisk

----------------------------------------------------------------------------
(* NewHandler *)

\* handler wrapped in one more layer.
Wrap(layer, handler) == <<layer>> \o handler

\* NewHandler with the logging layer put under the country filter.
NewHandlerLogInside(o, onDisk, wdOK) ==
    LET proxy  == <<"Proxy">>
        cache  == Wrap("Cache", proxy)
        send   == Wrap("Sendfile", cache)
        start  == Wrap("RequestStart", send)
        gzip   == IF o.gzipCompressionEnabled THEN Wrap("Gzip", start) ELSE start
        body   == IF o.maxRequestBody > 0 THEN Wrap("MaxBytes", gzip) ELSE gzip
        logged == IF o.logRequests THEN Wrap("Logging", body) ELSE body
    IN  IF o.geoIP2Enabled /\ OpenSucceeds(FindGeoIP2Database(wdOK), onDisk)
        THEN Wrap("GeoIP", logged)
        ELSE logged

\* NewHandler with compression wrapped around body-size limiting.
NewHandlerGzipOutside(o, onDisk, wdOK) ==
    LET proxy  == <<"Proxy">>
        cache  == Wrap("Cache", proxy)
        send   == Wrap("Sendfile", cache)
        start  == Wrap("RequestStart", send)
        body   == IF o.maxRequestBody > 0 THEN Wrap("MaxBytes", start) ELSE start
        gzip   == IF o.gzipCompressionEnabled THEN Wrap("Gzip", body) ELSE body
        geo    == IF o.geoIP2Enabled /\ OpenSucceeds(FindGeoIP2Database(wdOK), onDisk)
                  THEN Wrap("GeoIP", gzip)
                  ELSE gzip
    IN  IF o.logRequests THEN Wrap("Logging", geo) ELSE geo

\* The layers of the handler NewHandler returns, outermost first.
NewHandler(o, onDisk, wdOK) ==
    LET proxy  == <<"Proxy">>
        cache  == Wrap("Cache", proxy)
        send   == Wrap("Sendfile", cache)
        start  == Wrap("RequestStart", send)
        gzip   == IF o.gzipCompressionEnabled THEN Wrap("Gzip", start) ELSE start
        body   == IF o.maxRequestBody > 0 THEN Wrap("MaxBytes", gzip) ELSE gzip
        geo    == IF o.geoIP2Enabled /\ OpenSucceeds(FindGeoIP2Database(wdOK), onDisk)
                  THEN Wrap("GeoIP", body)
                  ELSE body
    IN  IF o.logRequests THEN Wrap("Logging", geo) ELSE geo

\* The request-logging layer records the status of the response once the
\* layers under it have returned.
LogRequest(log, layers, st) ==
    IF IndexByte(layers, "Logging") > 0 THEN Append(log, st) ELSE log

----------------------------------------------------------------------------
(* The inputs *)

US == <<"U", "S">>
us == <<"u", "s">>
CA == <<"C", "A">>
ca == <<"c", "a">>
CN == <<"C", "N">>
ZZ == <<"Z", "Z">>

\* The longest allow list and block list configured.
MaxListLen == 2

\* The sequences over S of at most n members.
ListsOver(S, n) == UNION {[1..m -> S] : m \in 0..n}

AllowLists == ListsOver({US, ca}, MaxListLen)

BlockLists == ListsOver({us, CN}, MaxListLen)

\* Results of reader.Country: an error, no entry (empty code), or a code.
LookupResults ==
    {[err |-> TRUE, code |-> <<>>]} \cup
    {[err |-> FALSE, code |-> c] : c \in {<<>>, US, us, CA, CN}}

\* Any limit above 0 installs the body-size layer.
BodyLimits == {0, 1024}

HandlerOptions ==
    [logRequests : BOOLEAN, geoIP2Enabled : BOOLEAN,
     gzipCompressionEnabled : BOOLEAN, maxRequestBody : BodyLimits,
     allowCountries : AllowLists, blockCountries : BlockLists]

\* The absolute paths of the candidates.
CandidateFiles ==
    {Abs(possiblePaths[k], TRUE).path : k \in 1..Len(possiblePaths)}

\* Values of the X-Forwarded-For header; <<>> is the header absent.
ForwardedValues ==
    { <<>>,
      \* 127.0.0.1
      <<"1", "2", "7", ".", "0", ".", "0", ".", "1">>,
      \* ::1
      <<":", ":", "1">>,
      \* 10.0.0.5
      <<"1", "0", ".", "0", ".", "0", ".", "5">>,
      \* 172.16.0.1
      <<"1", "7", "2", ".", "1", "6", ".", "0", ".", "1">>,
      \* 172.32.0.1
      <<"1", "7", "2", ".", "3", "2", ".", "0", ".", "1">>,
      \* 192.168.1.100:8080
      <<"1", "9", "2", ".", "1", "6", "8", ".", "1", ".", "1", "0", "0", ":", "8", "0", "8", "0">>,
      \* 169.254.1.1
      <<"1", "6", "9", ".", "2", "5", "4", ".", "1", ".", "1">>,
      \* [fe80::1]:443
      <<"[", "f", "e", "8", "0", ":", ":", "1", "]", ":", "4", "4", "3">>,
      \* fd00::1
      <<"f", "d", "0", "0", ":", ":", "1">>,
      \* ::ffff:10.0.0.1
      <<":", ":", "f", "f", "f", "f", ":", "1", "0", ".", "0", ".", "0", ".", "1">>,
      \* 203.0.113.1
      <<"2", "0", "3", ".", "0", ".", "1", "1", "3", ".", "1">>,
      \* 8.8.8.8:53
      <<"8", ".", "8", ".", "8", ".", "8", ":", "5", "3">>,
      \* 2001:db8::1
      <<"2", "0", "0", "1", ":", "d", "b", "8", ":", ":", "1">>,
      \* invalid
      <<"i", "n", "v", "a", "l", "i", "d">>,
      \* 203.0.113.1, 10.0.0.1
      <<"2", "0", "3", ".", "0", ".", "1", "1", "3", ".", "1", ",", " ", "1", "0", ".", "0", ".", "0", ".", "1">>,
      \* fe80::1%eth0
      <<"f", "e", "8", "0", ":", ":", "1", "%", "e", "t", "h", "0">> }

\* Values of the transport peer address (http.Request.RemoteAddr).
PeerValues ==
    { <<"1", "0", ".", "0", ".", "0", ".", "1", ":", "1", "2", "3", "4", "5">>, \* 10.0.0.1:12345
      <<"2", "0", "3", ".", "0", ".", "1", "1", "3", ".", "1", ":", "4", "7", "1", "1">> } \* 203.0.113.1:4711

\* X-GeoIP-Country as the client sent it; <<>> is the header absent.
InboundCountryValues == {<<>>, ZZ}

Requests ==
    [xff : ForwardedValues, remoteAddr : PeerValues, geo : InboundCountryValues]

NoRequest == [xff |-> <<>>, remoteAddr |-> <<>>, geo |-> <<>>]

NoLookup == [err |-> FALSE, code |-> <<>>]

----------------------------------------------------------------------------
(* The state machine *)

Idle ==
    /\ dbPath = <<>> /\ chain = <<>>
    /\ req = NoRequest /\ ip = Nil /\ local = FALSE /\ lookup = NoLookup
    /\ entered = <<>> /\ status = 0 /\ lookups = 0 /\ annotations = 0
    /\ geoLog = <<>> /\ accessLog = <<>> /\ downstream = <<>>
    /\ cancelled = FALSE

\* A process about to build its handler; the database, when there is one, is
\* at the first candidate path.
Init ==
    /\ options \in HandlerOptions
    /\ files \in {{}, {Abs(possiblePaths[1], TRUE).path}}
    /\ cwdOK = TRUE
    /\ pc = "boot"
    /\ Idle

\* NewHandler(options)
Startup ==
    /\ pc = "boot"
    /\ dbPath' = FindGeoIP2Database(cwdOK)
    /\ chain' = NewHandler(options, files, cwdOK)
    /\ pc' = "idle"
    /\ UNCHANGED <<options, files, cwdOK, req, ip, local, lookup, entered, status,
                   lookups, annotations, geoLog, accessLog, downstream, cancelled>>

\* The server hands a request to the handler.
Receive(r) ==
    /\ pc = "idle"
    /\ req' = r
    /\ pc' = "serving"
    /\ UNCHANGED <<options, files, cwdOK, dbPath, chain, ip, local, lookup,
                   entered, status, lookups, annotations, geoLog, accessLog,
                   downstream, cancelled>>

\* The filter's next handler and every layer under it run; the proxy answers.
PassDownstream(r) ==
    /\ downstream' = Append(downstream, r.geo)
    /\ entered' = chain
    /\ status' = StatusOK
    /\ accessLog' = LogRequest(accessLog, chain, StatusOK)
    /\ pc' = "done"

\* The handler runs up to the country lookup, or to its end when the request
\* needs none.
ServeBegin ==
    /\ pc = "serving"
    /\ LET g == IndexByte(chain, "GeoIP")
           a == ParseIP(HostOf(RemoteAddrOf(req)))
       IN  IF g = 0
           THEN /\ entered' = chain
                /\ status' = StatusOK
                /\ accessLog' = LogRequest(accessLog, chain, StatusOK)
                /\ pc' = "done"
                /\ UNCHANGED <<ip, local, lookups, downstream>>
           ELSE /\ ip' = a
                /\ local' = isLocalOrInternalIP(a)
                /\ IF a = Nil \/ isLocalOrInternalIP(a)
                   THEN /\ PassDownstream(req)
                        /\ UNCHANGED lookups
                   ELSE /\ entered' = SubSeq(chain, 1, g)
                        /\ lookups' = lookups + 1
                        /\ pc' = "lookup"
                        /\ UNCHANGED <<status, accessLog, downstream>>
    /\ UNCHANGED <<options, files, cwdOK, dbPath, chain, req, lookup, annotations,
                   geoLog, cancelled>>

\* reader.Country returns res and ServeHTTP finishes.
LookupReturn(res) ==
    /\ pc = "lookup"
    /\ lookup' = res
    /\ LET v == Verdict(res, options.allowCountries, options.blockCountries)
           r == IF Annotates(res) THEN [req EXCEPT !.geo = res.code] ELSE req
       IN  IF v = "pass"
           THEN /\ req' = r
                /\ annotations' = IF Annotates(res) THEN annotations + 1
                                  ELSE annotations
                /\ PassDownstream(r)
                /\ UNCHANGED geoLog
           ELSE /\ geoLog' = Append(geoLog,
                       [reason |-> v, country |-> res.code,
                        ip |-> HostOf(RemoteAddrOf(req)),
                        list |-> IF v = "not-allowed" THEN options.allowCountries
                                 ELSE options.blockCountries])
                /\ status' = StatusForbidden
                /\ accessLog' = LogRequest(accessLog, entered, StatusForbidden)
                /\ pc' = "done"
                /\ UNCHANGED <<req, annotations, entered, downstream>>
    /\ UNCHANGED <<options, files, cwdOK, dbPath, chain, ip, local, lookups,
                   cancelled>>

\* The handler has returned and the response is sent: the request and what
\* was observed of it are discarded; the handler is ready for the next one.
Finish ==
    /\ pc = "done"
    /\ pc' = "idle"
    /\ req' = NoRequest /\ ip' = Nil /\ local' = FALSE /\ lookup' = NoLookup
    /\ entered' = <<>> /\ status' = 0 /\ lookups' = 0 /\ annotations' = 0
    /\ geoLog' = <<>> /\ accessLog' = <<>> /\ downstream' = <<>>
    /\ cancelled' = FALSE
    /\ UNCHANGED <<options, files, cwdOK, dbPath, chain>>

\* The serving runtime cancels the request being served.
Cancel ==
    /\ pc \in {"serving", "lookup"}
    /\ ~cancelled
    /\ cancelled' = TRUE
    /\ UNCHANGED <<options, files, cwdOK, dbPath, chain, pc, req, ip, local,
                   lookup, entered, status, lookups, annotations, geoLog,
                   accessLog, downstream>>

Next ==
    \/ Startup
    \/ \E r \in Requests : Receive(r)
    \/ ServeBegin
    \/ \E res \in LookupResults : LookupReturn(res)
    \/ Finish
    \/ Cancel

Spec == Init /\ [][Next]_vars

----------------------------------------------------------------------------
(* Building the handler, for every set of database files on disk *)

InitBuild ==
    /\ options \in HandlerOptions
    /\ files \in SUBSET CandidateFiles
    /\ cwdOK \in BOOLEAN
    /\ pc = "boot"
    /\ Idle

NextBuild == Startup

SpecBuild == InitBuild /\ [][NextBuild]_vars

----------------------------------------------------------------------------
(* isLocalOrInternalIP applied to addresses of every shape *)

FirstOctets == {0, 9, 10, 11, 126, 127, 128, 169, 172, 192, 203, 252, 253, 254}

SecondOctets == {0, 15, 16, 17, 31, 32, 113, 167, 168, 169, 253, 254, 255}

FirstBytes6 == {0, 32, 127, 251, 252, 253, 254, 255}

SecondBytes6 == {0, 127, 128, 129, 191, 192, 255}

\* Four-byte and sixteen-byte IPv4 addresses, IPv6 addresses, what ParseIP
\* makes of the request texts (nil for the unparseable ones).
ClassifyInputs ==
    {<<a, b, 0, 1>> : a \in FirstOctets, b \in SecondOctets} \cup
    {v4InV6Prefix \o <<a, b, 0, 1>> : a \in FirstOctets, b \in SecondOctets} \cup
    {<<x, y>> \o Zeros(13) \o <<1>> : x \in FirstBytes6, y \in SecondBytes6} \cup
    {Zeros(12) \o <<a, b, 0, 1>> : a \in {10, 127}, b \in {0, 168}} \cup
    {ParseIP(HostOf(t)) : t \in ForwardedValues \cup PeerValues}

InitClassify ==
    /\ options \in {o \in HandlerOptions :
                       /\ o.allowCountries = <<>> /\ o.blockCountries = <<>>
                       /\ ~o.logRequests /\ ~o.geoIP2Enabled
                       /\ ~o.gzipCompressionEnabled /\ o.maxRequestBody = 0}
    /\ files = {}
    /\ cwdOK = TRUE
    /\ pc = "classify"
    /\ dbPath = <<>> /\ chain = <<>>
    /\ req = NoRequest /\ ip \in ClassifyInputs /\ local = FALSE
    /\ lookup = NoLookup
    /\ entered = <<>> /\ status = 0 /\ lookups = 0 /\ annotations = 0
    /\ geoLog = <<>> /\ accessLog = <<>> /\ downstream = <<>>
    /\ cancelled = FALSE

Classify ==
    /\ pc = "classify"
    /\ local' = isLocalOrInternalIP(ip)
    /\ pc' = "classified"
    /\ UNCHANGED <<options, files, cwdOK, dbPath, chain, req, ip, lookup, entered,
                   status, lookups, annotations, geoLog, accessLog, downstream,
                   cancelled>>

NextClassify == Classify

SpecClassify == InitClassify /\ [][NextClassify]_vars

----------------------------------------------------------------------------
(* What the claims speak of *)

\* The first two bytes of an address as one 16-bit number.
Top16(a) == a[1] * 256 + a[2]

\* w, the first 16 bits of an address, lies in the prefix base/bits.
InPrefix16(w, base, bits) == w \div (2 ^ (16 - bits)) = base \div (2 ^ (16 - bits))

IsIPv4Address(a) ==
    \/ Len(a) = 4
    \/ /\ Len(a) = 16
       /\ \A k \in 1..10 : a[k] = 0
       /\ a[11] = 255
       /\ a[12] = 255

IPv4Octets(a) == IF Len(a) = 4 THEN a ELSE <<a[13], a[14], a[15], a[16]>>

\* The ranges of loopback, private and link-local addresses.
ClaimedLocal(a) ==
    /\ a # Nil
    /\ \/ /\ IsIPv4Address(a)
          /\ LET w == Top16(IPv4Octets(a))
             IN  \/ InPrefix16(w, 127 * 256, 8)
                 \/ InPrefix16(w, 10 * 256, 8)
                 \/ InPrefix16(w, 172 * 256 + 16, 12)
                 \/ InPrefix16(w, 192 * 256 + 168, 16)
                 \/ InPrefix16(w, 169 * 256 + 254, 16)
       \/ /\ Len(a) = 16
          /\ \A k \in 1..15 : a[k] = 0
          /\ a[16] = 1
       \/ /\ Len(a) = 16
          /\ \/ InPrefix16(Top16(a), 64512, 7)
             \/ InPrefix16(Top16(a), 65152, 10)

\* The text without its port: "[host]:port" and "host:port" give host.
StripPort(t) ==
    LET colons == {k \in 1..Len(t) : t[k] = ":"}
    IN  IF /\ Len(t) > 0 /\ t[1] = "["
           /\ \E e \in 2..(Len(t) - 1) :
                  t[e] = "]" /\ t[e + 1] = ":" /\ \A k \in colons : k <= e + 1
        THEN LET e == CHOOSE e \in 2..(Len(t) - 1) :
                          t[e] = "]" /\ t[e + 1] = ":" /\ \A k \in colons : k <= e + 1
             IN  SubSeq(t, 2, e - 1)
        ELSE IF Cardinality(colons) = 1
        THEN SubSeq(t, 1, (CHOOSE k \in colons : TRUE) - 1)
        ELSE t

\* The address a request is judged by: the X-Forwarded-For value when
\* non-empty, otherwise the peer address, with any port stripped.
ExtractedAddress(r) ==
    ParseIP(StripPort(IF r.xff # <<>> THEN r.xff ELSE r.remoteAddr))

ToUpper ==
    ("a" :> "A") @@ ("c" :> "C") @@ ("n" :> "N") @@ ("s" :> "S") @@
    ("u" :> "U") @@ ("z" :> "Z")

UpperCase(s) == [k \in 1..Len(s) |-> IF s[k] \in DOMAIN ToUpper THEN ToUpper[s[k]] ELSE s[k]]

\* code is a member of list, letter case aside.
MemberIgnoringCase(code, list) ==
    UpperCase(code) \in {UpperCase(list[k]) : k \in 1..Len(list)}

FilterInstalled == IndexByte(chain, "GeoIP") > 0

\* The request was served by a chain with the filter and is finished.
Filtered == pc = "done" /\ FilterInstalled

\* The lookup for the finished request succeeded.
LookedUp == Filtered /\ lookups = 1 /\ ~lookup.err

Rejected == status = StatusForbidden /\ downstream = <<>>

PassedOn == status # StatusForbidden /\ Len(downstream) = 1 /\ entered = chain

----------------------------------------------------------------------------
(* C1: a request whose address parses, is not local and whose lookup       *)
(* succeeds with code c is rejected (403, next handler not called) exactly *)
(* when the allow list is non-empty and has no member equal to c ignoring  *)
(* case, or the allow list is empty, the block list is non-empty and has   *)
(* such a member; otherwise the next handler is called.  The block list    *)
(* plays no part under a non-empty allow list.                             *)
C1_AllowBlockDecision ==
    LookedUp =>
        LET allow == options.allowCountries
            block == options.blockCountries
            reject == \/ allow # <<>> /\ ~MemberIgnoringCase(lookup.code, allow)
                      \/ /\ allow = <<>> /\ block # <<>>
                         /\ MemberIgnoringCase(lookup.code, block)
        IN  /\ ip # Nil /\ ~ClaimedLocal(ip)
            /\ reject => Rejected
            /\ ~reject => PassedOn

\* A code on both lists, second on the allow list and in another letter case
\* there, passes.
C1_Witness ==
    /\ LookedUp
    /\ lookup.code = us
    /\ options.allowCountries = <<ca, US>>
    /\ options.blockCountries = <<CN, us>>
    /\ PassedOn

(* C2: a request whose extracted address is loopback, RFC-1918, link-local *)
(* or IPv6 unique-local goes to the next handler under every policy: no    *)
(* lookup, no rejection, no X-GeoIP-Country written.                       *)
C2_LocalBypass ==
    (Filtered /\ ClaimedLocal(ExtractedAddress(req))) =>
        /\ PassedOn
        /\ lookups = 0
        /\ geoLog = <<>>
        /\ annotations = 0

\* A link-local address in X-Forwarded-For, a public peer, an allow list.
C2_Witness ==
    /\ Filtered
    /\ ClaimedLocal(ExtractedAddress(req))
    /\ req.xff # <<>>
    /\ ~ClaimedLocal(ExtractedAddress([req EXCEPT !.xff = <<>>]))
    /\ InPrefix16(Top16(IPv4Octets(ExtractedAddress(req))), 169 * 256 + 254, 16)
    /\ options.allowCountries # <<>>
    /\ PassedOn

(* C3: a failed lookup or an address that does not parse never gives a     *)
(* 403: under every policy the next handler is called exactly once, no     *)
(* annotation is written and no rejection is logged.                       *)
C3_FailOpen ==
    /\ pc = "lookup" => ExtractedAddress(req) # Nil
    /\ (Filtered /\ (ExtractedAddress(req) = Nil \/ (lookups = 1 /\ lookup.err))) =>
           /\ PassedOn
           /\ annotations = 0
           /\ geoLog = <<>>

\* A lookup fails under an allow list.
C3_Witness ==
    /\ Filtered
    /\ lookups = 1 /\ lookup.err
    /\ options.allowCountries # <<>>
    /\ PassedOn

(* C4: isLocalOrInternalIP(ip) is true exactly for 127.0.0.0/8, ::1,       *)
(* 10.0.0.0/8, 172.16.0.0/12, 192.168.0.0/16, 169.254.0.0/16, fc00::/7     *)
(* and fe80::/10, and false for every other address and for nil.           *)
C4_LocalRanges ==
    pc = "classified" => (local <=> ClaimedLocal(ip))

\* 172.31.x.x has been classified local.
C4_Witness ==
    /\ pc = "classified"
    /\ IsIPv4Address(ip) /\ IPv4Octets(ip)[1] = 172 /\ IPv4Octets(ip)[2] = 31
    /\ local

(* C5, as stated: a lookup that succeeds with an empty country code passes *)
(* to the next handler under every policy, a non-empty allow list          *)
(* included, and no annotation is written.                                 *)
C5_Original ==
    (LookedUp /\ lookup.code = <<>>) => (PassedOn /\ annotations = 0)

(* C5, amended: after a lookup that succeeds with an empty country code no *)
(* annotation is written, and the request passes to the next handler       *)
(* exactly when the allow list is empty and the block list has no empty    *)
(* member, or the allow list has an empty member; otherwise (a non-empty   *)
(* allow list of country codes) it is rejected with 403.                   *)
C5_NotFound ==
    (LookedUp /\ lookup.code = <<>>) =>
        LET allow == options.allowCountries
            block == options.blockCountries
            pass == \/ allow = <<>> /\ \A k \in 1..Len(block) : block[k] # <<>>
                    \/ \E k \in 1..Len(allow) : allow[k] = <<>>
        IN  /\ annotations = 0
            /\ pass => PassedOn /\ downstream = <<req.geo>>
            /\ ~pass => Rejected /\ Len(geoLog) = 1

\* An address without a database entry passes under a block list.
C5_Witness ==
    /\ LookedUp /\ lookup.code = <<>>
    /\ options.allowCountries = <<>>
    /\ options.blockCountries # <<>>
    /\ PassedOn

(* C6: with logging, the country filter (database opened) and compression  *)
(* all in the chain, a request the filter rejects is seen by the logging   *)
(* layer with status 403 and enters none of the body-size, compression,    *)
(* cache and proxy layers.                                                 *)
C6_RejectedIsLoggedAndStops ==
    (/\ Filtered
     /\ options.logRequests /\ options.gzipCompressionEnabled
     /\ geoLog # <<>>) =>
        /\ accessLog = <<StatusForbidden>>
        /\ \A k \in 1..Len(entered) :
               entered[k] \notin {"MaxBytes", "Gzip", "Cache", "Proxy"}

\* A rejection with logging, compression and a body limit all enabled.
C6_Witness ==
    /\ Filtered
    /\ options.logRequests /\ options.gzipCompressionEnabled
    /\ options.maxRequestBody > 0
    /\ geoLog # <<>>
    /\ status = StatusForbidden

\* Whether the configuration and the disk put a layer in the chain.
Installed(layer) ==
    CASE layer = "Logging" -> options.logRequests
      [] layer = "GeoIP" -> options.geoIP2Enabled /\ dbPath \in files
      [] layer = "MaxBytes" -> options.maxRequestBody > 0
      [] layer = "Gzip" -> options.gzipCompressionEnabled
      [] OTHER -> TRUE

\* The order as claimed: a timing layer outermost, then the eight others.
ClaimedOrder ==
    <<"Timing", "Logging", "GeoIP", "MaxBytes", "Gzip", "RequestStart",
      "Sendfile", "Cache", "Proxy">>

\* The order without the outermost timing layer.
AmendedOrder ==
    <<"Logging", "GeoIP", "MaxBytes", "Gzip", "RequestStart", "Sendfile",
      "Cache", "Proxy">>

(* C7, as stated: the handler is the nesting of the enabled layers in the  *)
(* order request-start/timing instrumentation, logging, country filter,    *)
(* body-size limiting, compression, instrumentation start marker,          *)
(* file-serving, caching, proxy; a request no layer short-circuits enters  *)
(* them in that order.                                                     *)
C7_Original ==
    (pc = "done" /\ status = StatusOK) =>
        /\ chain = SelectSeq(ClaimedOrder, Installed)
        /\ entered = SelectSeq(ClaimedOrder, Installed)

(* C7, amended: the handler is the nesting of the enabled layers in the    *)
(* order logging, country filter, body-size limiting, compression,         *)
(* request-start instrumentation, file-serving, caching, proxy; there is   *)
(* no instrumentation layer outside the logging layer.  A request no layer *)
(* short-circuits enters them in that order.                               *)
C7_ChainOrder ==
    /\ pc # "boot" => chain = SelectSeq(AmendedOrder, Installed)
    /\ (pc = "done" /\ status = StatusOK) =>
           entered = SelectSeq(AmendedOrder, Installed)

\* A request went through a chain with every optional layer.
C7_Witness ==
    /\ pc = "done" /\ status = StatusOK
    /\ Len(chain) = Len(AmendedOrder)
    /\ entered = AmendedOrder
    /\ lookups = 1

(* C8: when classification was skipped or inconclusive (address            *)
(* unparseable or local, lookup failed or empty) the next handler receives *)
(* a request without X-GeoIP-Country, whatever the inbound headers were;   *)
(* it sees a non-empty value only when this request's lookup succeeded     *)
(* with that code.                                                         *)
C8_AnnotationOnlyFromLookup ==
    (Filtered /\ Len(downstream) = 1) =>
        LET conclusive == lookups = 1 /\ ~lookup.err /\ lookup.code # <<>>
        IN  /\ ~conclusive => downstream[1] = <<>>
            /\ downstream[1] # <<>> => (conclusive /\ downstream[1] = lookup.code)

(* C9: once the serving runtime has cancelled a request, the filter makes  *)
(* no further observable change for it: no X-GeoIP-Country is written and  *)
(* no rejection record is logged.                                          *)
C9_NoChangeAfterCancel ==
    [][(cancelled /\ cancelled') =>
           (annotations' = annotations /\ geoLog' = geoLog)]_vars

\* The first candidate path, in listed order, at which a database exists.
FirstExisting(onDisk) ==
    LET hits == {k \in 1..Len(possiblePaths) : Abs(possiblePaths[k], TRUE).path \in onDisk}
    IN  IF hits = {} THEN <<>>
        ELSE Abs(possiblePaths[CHOOSE k \in hits : \A j \in hits : k <= j], TRUE).path

(* C10: FindGeoIP2Database returns the absolute path of the first          *)
(* candidate at which a database file exists and the empty string when     *)
(* there is none; so NewHandler with geo-filtering enabled installs the    *)
(* filter whenever a database exists at some candidate path.               *)
C10_FindsDatabase ==
    (pc = "idle" /\ cwdOK) =>
        /\ dbPath = FirstExisting(files)
        /\ (options.geoIP2Enabled /\ files # {}) => FilterInstalled

====
